---- MODULE Spec2Model ----
(***************************************************************************)
(* A model of the smart-assistant challenge subsystem:                     *)
(*   src/backend/challenge.py  generate_quiz, generate_subjective_         *)
(*                             questions, evaluate_answer                  *)
(*   src/app.py                the Streamlit script: upload and summary    *)
(*                             block, Generate Challenge handler, quiz     *)
(*                             display and submit                          *)
(*                                                                         *)
(* Text is a sequence of lexemes, each a TLA+ string.  For the objective   *)
(* quiz a lexeme is one punctuation character, one whitespace character,   *)
(* one JSON string literal, one JSON number literal or one prose word.     *)
(* The regular expression of generate_quiz reads '[', '{', '}', ']' and    *)
(* whitespace only, each of which is a lexeme of its own, and no other     *)
(* lexeme contains one of them, so it matches a lexeme sequence exactly    *)
(* as it matches the characters.  For the subjective questions a lexeme    *)
(* is one character.                                                       *)
(***************************************************************************)
EXTENDS Integers, Sequences, FiniteSets, TLC

(***************************************************************************)
(* Bounds of the model.                                                    *)
(***************************************************************************)
\* longest free-form model text, in lexemes
MaxTextLen == 4
\* largest number of records in an encoded quiz payload
MaxQuestions == 2

(***************************************************************************)
(* Lexemes.                                                                *)
(***************************************************************************)
WS == {" ", "\n"}

\* JSON string literals: the three keys of a record, question texts,
\* option letters, option texts
KeyLits == {"question", "options", "correct_option"}
Letters == <<"A", "B", "C", "D">>
StrLits == KeyLits \cup {"Q1", "Q2", "A", "B", "C", "D", "a",
                         "Paris", "paris", " Paris", "Rome", "Oslo", "Bern", "Lima"}
NumLits == {"7"}
\* every other lexeme is prose: "w" a word, "fence" a markdown code fence

SeqsUpTo(S, n) == UNION {[1..k -> S] : k \in 0..n}

Min(S) == CHOOSE x \in S : \A y \in S : x <= y
Max(S) == CHOOSE x \in S : \A y \in S : x >= y

(***************************************************************************)
(* str.strip(): leading and trailing whitespace removed.                   *)
(***************************************************************************)
Strip(s) ==
    LET keep == {i \in 1..Len(s) : s[i] \notin WS}
    IN  IF keep = {} THEN <<>> ELSE SubSeq(s, Min(keep), Max(keep))

(***************************************************************************)
(* JSON values, tagged: a string, a number, a list, an object (a function  *)
(* from its keys to values).                                               *)
(***************************************************************************)
NoVal == [t |-> "none", v |-> "none"]
StrVal(x) == [t |-> "str", v |-> x]
NumVal(x) == [t |-> "num", v |-> x]
ListVal(xs) == [t |-> "list", v |-> xs]
ObjVal(f) == [t |-> "obj", v |-> f]

Fail == [ok |-> FALSE, val |-> NoVal, pos |-> 0]
Ok(v, p) == [ok |-> TRUE, val |-> v, pos |-> p]

\* the first position at or after i that holds no whitespace (Len(s)+1: none)
SkipWs(s, i) ==
    Min({j \in i..(Len(s) + 1) : j = Len(s) + 1 \/ s[j] \notin WS})

At(s, i) == IF i \in 1..Len(s) THEN s[i] ELSE "<eof>"

(***************************************************************************)
(* json.loads: the strict JSON grammar, by recursive descent.  Whitespace  *)
(* may separate lexemes; a trailing comma, a missing colon, a bare word or *)
(* text after the value is a JSONDecodeError.  A repeated key keeps the    *)
(* last value, as a Python dict does.                                      *)
(***************************************************************************)
RECURSIVE ParseValue(_, _)
RECURSIVE ParseElems(_, _, _)
RECURSIVE ParseMembers(_, _, _)

ParseValue(s, i) ==
    LET c == At(s, i) IN
    IF c \in StrLits THEN Ok(StrVal(c), i + 1)
    ELSE IF c \in NumLits THEN Ok(NumVal(c), i + 1)
    ELSE IF c = "[" THEN
        LET j == SkipWs(s, i + 1) IN
        IF At(s, j) = "]" THEN Ok(ListVal(<<>>), j + 1)
        ELSE ParseElems(s, j, <<>>)
    ELSE IF c = "{" THEN
        LET j == SkipWs(s, i + 1) IN
        IF At(s, j) = "}" THEN Ok(ObjVal(<<>>), j + 1)
        ELSE ParseMembers(s, j, <<>>)
    ELSE Fail

ParseElems(s, i, acc) ==
    LET r == ParseValue(s, i) IN
    IF ~r.ok THEN Fail
    ELSE LET k == SkipWs(s, r.pos)
             got == Append(acc, r.val) IN
         IF At(s, k) = "," THEN ParseElems(s, SkipWs(s, k + 1), got)
         ELSE IF At(s, k) = "]" THEN Ok(ListVal(got), k + 1)
         ELSE Fail

ParseMembers(s, i, acc) ==
    IF At(s, i) \notin StrLits THEN Fail
    ELSE LET k == SkipWs(s, i + 1) IN
         IF At(s, k) # ":" THEN Fail
         ELSE LET r == ParseValue(s, SkipWs(s, k + 1)) IN
              IF ~r.ok THEN Fail
              ELSE LET m == SkipWs(s, r.pos)
                       got == (s[i] :> r.val) @@ acc IN
                   IF At(s, m) = "," THEN ParseMembers(s, SkipWs(s, m + 1), got)
                   ELSE IF At(s, m) = "}" THEN Ok(ObjVal(got), m + 1)
                   ELSE Fail

json_loads(s) ==
    LET r == ParseValue(s, SkipWs(s, 1)) IN
    IF r.ok /\ SkipWs(s, r.pos) = Len(s) + 1 THEN r ELSE Fail

(***************************************************************************)
(* re.search with generate_quiz's pattern and DOTALL: the leftmost '['      *)
(* that is followed, after whitespace, by '{', from which a '}' followed,  *)
(* after whitespace, by ']' can be reached; '.*' is greedy, so the match   *)
(* ends at the last such ']'.  Without DOTALL '.' does not match a line    *)
(* break.  The result is the matched substring, or no match.               *)
(***************************************************************************)
NoMatch == [found |-> FALSE, group |-> <<>>]

RegexSearchWith(content, dotall) ==
    LET n == Len(content)
        \* the '{' that follows the '[' at i, or 0
        Open(i) == IF content[i] = "[" /\ At(content, SkipWs(content, i + 1)) = "{"
                   THEN SkipWs(content, i + 1) ELSE 0
        \* the ends e of a '}' \s* ']' whose '}' is at p
        Close(p) == IF content[p] = "}" /\ At(content, SkipWs(content, p + 1)) = "]"
                    THEN SkipWs(content, p + 1) ELSE 0
        Dot(b, p) == dotall \/ \A x \in (b + 1)..(p - 1) : content[x] # "\n"
        Ends(i) == {Close(p) : p \in {q \in (Open(i) + 1)..n :
                                         Close(q) # 0 /\ Dot(Open(i), q)}}
        starts == {i \in 1..n : Open(i) # 0 /\ Ends(i) # {}}
    IN  IF starts = {} THEN NoMatch
        ELSE LET i == Min(starts) IN
             [found |-> TRUE, group |-> SubSeq(content, i, Max(Ends(i)))]

\* the search with the DOTALL flag forgotten
RegexSearchNoDotall(content) == RegexSearchWith(content, FALSE)

RegexSearch(content) == RegexSearchWith(content, TRUE)

(***************************************************************************)
(* The outcome of a call of this module's functions: a returned value, or  *)
(* a raised exception with its type and its message (a lexeme sequence).   *)
(***************************************************************************)
NoErr == [type |-> "none", msg |-> <<>>]
Return(v) == [kind |-> "return", val |-> v, err |-> NoErr]
Raise(type, msg) == [kind |-> "raise", val |-> NoVal, err |-> [type |-> type, msg |-> msg]]
NoResult == [kind |-> "none", val |-> NoVal, err |-> NoErr]

(***************************************************************************)
(* What generate_content and response.text give: the model's text, or an   *)
(* exception of the provider (authentication, network, blocked response).  *)
(***************************************************************************)
TextReply(t) == [ok |-> TRUE, text |-> t]
ProviderFailure == [ok |-> FALSE, text |-> <<"provider error">>]

(***************************************************************************)
(* generate_quiz, from the model's reply on: strip, the direct json.loads, *)
(* on JSONDecodeError the regex salvage and a second json.loads, and the   *)
(* outer 'except Exception' that re-raises everything as RuntimeError.     *)
(***************************************************************************)
QuizErrPrefix == "Gemini quiz generation error: "
InvalidFormatMsg == "Gemini returned non-JSON or invalid quiz format."
\* str() of a JSONDecodeError: what was expected and a position, never the document
DecodeErrMsg == "Expecting value: line L column C (char N)"

generate_quiz(reply) ==
    IF ~reply.ok THEN Raise("RuntimeError", <<QuizErrPrefix>> \o reply.text)
    ELSE LET content == Strip(reply.text)
             direct == json_loads(content) IN
         IF direct.ok THEN Return(direct.val)
         ELSE LET match == RegexSearch(content) IN
              IF match.found
              THEN LET salvaged == json_loads(match.group) IN
                   IF salvaged.ok THEN Return(salvaged.val)
                   ELSE Raise("RuntimeError", <<QuizErrPrefix, DecodeErrMsg>>)
              ELSE Raise("RuntimeError", <<QuizErrPrefix, InvalidFormatMsg>>)

(***************************************************************************)
(* generate_subjective_questions, from the model's reply on.  The text is  *)
(* a sequence of characters.                                               *)
(***************************************************************************)
SubjErrPrefix == "Gemini subjective Q generation error: "
\* the characters of line.lstrip("1234567890). ") that the model's alphabet holds
MarkerChars == {"1", "2", ")", ".", " "}

RECURSIVE splitlines(_)
splitlines(s) ==
    IF s = <<>> THEN <<>>
    ELSE LET brk == {i \in 1..Len(s) : s[i] = "\n"} IN
         IF brk = {} THEN <<s>>
         ELSE <<SubSeq(s, 1, Min(brk) - 1)>> \o splitlines(SubSeq(s, Min(brk) + 1, Len(s)))

lstrip(s, chars) ==
    LET keep == {i \in 1..Len(s) : s[i] \notin chars}
    IN  IF keep = {} THEN <<>> ELSE SubSeq(s, Min(keep), Len(s))

\* the list comprehension of line 77: the filter reads line.strip(), the
\* element is line.lstrip(markers).strip()
RECURSIVE CleanLines(_)
CleanLines(lines) ==
    IF lines = <<>> THEN <<>>
    ELSE LET line == Head(lines) IN
         (IF Strip(line) # <<>> THEN <<Strip(lstrip(line, MarkerChars))>> ELSE <<>>)
         \o CleanLines(Tail(lines))

Prefix(s, n) == SubSeq(s, 1, IF n < Len(s) THEN n ELSE Len(s))

TextVal(chars) == [t |-> "text", v |-> chars]

generate_subjective_questions(reply, num_questions) ==
    IF ~reply.ok THEN Raise("RuntimeError", <<SubjErrPrefix>> \o reply.text)
    ELSE LET raw == Strip(reply.text)
             questions == CleanLines(splitlines(raw)) IN
         Return(ListVal([i \in 1..Len(Prefix(questions, num_questions)) |->
                            TextVal(questions[i])]))

(***************************************************************************)
(* evaluate_answer: both answers stripped and lower-cased, then compared.  *)
(* A JSON string literal is spelled out in characters for this.            *)
(***************************************************************************)
Spell(lit) ==
    CASE lit = "Paris"   -> <<"P", "a", "r", "i", "s">>
      [] lit = "paris"   -> <<"p", "a", "r", "i", "s">>
      [] lit = " Paris"  -> <<" ", "P", "a", "r", "i", "s">>
      [] lit = "Rome"    -> <<"R", "o", "m", "e">>
      [] lit = "Oslo"    -> <<"O", "s", "l", "o">>
      [] lit = "Bern"    -> <<"B", "e", "r", "n">>
      [] lit = "Lima"    -> <<"L", "i", "m", "a">>
      [] OTHER           -> <<lit>>

lower_char(c) ==
    CASE c = "A" -> "a" [] c = "B" -> "b" [] c = "C" -> "c" [] c = "D" -> "d"
      [] c = "P" -> "p" [] c = "R" -> "r" [] c = "O" -> "o" [] c = "L" -> "l"
      [] OTHER -> c

lower(s) == [i \in 1..Len(s) |-> lower_char(s[i])]

evaluate_answer(user_answer, correct_answer) ==
    lower(Strip(Spell(user_answer))) = lower(Strip(Spell(correct_answer)))

(***************************************************************************)
(* The quiz records the model is asked for, and their JSON text.           *)
(***************************************************************************)
Record(q, opts, c) == [question |-> q, options |-> opts, correct_option |-> c]

\* the Python value json.loads gives for the JSON text of a record
RecordVal(d) ==
    ObjVal([k \in KeyLits |->
              CASE k = "question" -> StrVal(d.question)
                [] k = "options" -> ListVal([i \in 1..Len(d.options) |-> StrVal(d.options[i])])
                [] OTHER -> StrVal(d.correct_option)])

QuizVal(ds) == ListVal([i \in 1..Len(ds) |-> RecordVal(ds[i])])

RECURSIVE Join(_, _)
Join(parts, sep) ==
    IF parts = <<>> THEN <<>>
    ELSE IF Len(parts) = 1 THEN Head(parts)
    ELSE Head(parts) \o sep \o Join(Tail(parts), sep)

\* the JSON text of a record; sp is the whitespace written after ':' and ','
EncodeRecord(d, sp) ==
    <<"{", "question", ":">> \o sp \o <<d.question, ",">> \o sp
    \o <<"options", ":">> \o sp \o <<"[">>
    \o Join([i \in 1..Len(d.options) |-> <<d.options[i]>>], <<",">> \o sp)
    \o <<"]", ",">> \o sp \o <<"correct_option", ":">> \o sp \o <<d.correct_option, "}">>

\* the JSON text of a quiz, on one line or one record per line
EncodeQuiz(ds, multiline) ==
    LET nl == IF multiline THEN <<"\n">> ELSE <<>>
        sp == IF multiline THEN <<" ">> ELSE <<>>
    IN  <<"[">> \o nl
        \o Join([i \in 1..Len(ds) |-> EncodeRecord(ds[i], sp)], <<",">> \o nl)
        \o nl \o <<"]">>

\* the payload between leading and trailing prose, inside a code fence or not
Wrap(payload, lead, trail, fence) ==
    IF fence THEN lead \o <<"fence", "\n">> \o payload \o <<"\n", "fence">> \o trail
    ELSE lead \o payload \o trail

VARIABLES
    \* one invocation of generate_quiz or generate_subjective_questions each
    pc,         \* "start", "configured", "done"; "off": not invoked
    fn,         \* the function invoked
    key,        \* its api_key argument
    num,        \* its num_questions argument
    reply,      \* what the model service answers to its generate_content
    shape,      \* how that answer was composed
    result,     \* what the invocation returned or raised
    calls,      \* the generate_content calls it has issued
    usedKey,    \* the credential its generate_content was made with
    \* process-wide
    cfgKey,     \* the credential genai.configure stored last
    \* one Streamlit session of app.py
    uploaded_file,  \* the file in the uploader
    challenge_type, \* the radio's selection
    choice,         \* the selected option of each question's radio
    session_state,  \* st.session_state
    score,          \* the score the last run displayed
    last,           \* what the last run of the script did, and the challenge
                    \* keys the session held when its handler started
    summarise_ok    \* the successful summarise_document calls so far

invVars == <<pc, fn, key, num, reply, shape, result, calls, usedKey, cfgKey>>
appVars == <<uploaded_file, challenge_type, choice, session_state, score, last, summarise_ok>>
vars == <<pc, fn, key, num, reply, shape, result, calls, usedKey, cfgKey,
          uploaded_file, challenge_type, choice, session_state, score, last, summarise_ok>>

(***************************************************************************)
(* The inputs: what the model service may answer.                          *)
(***************************************************************************)
Capitals == <<"Paris", "Rome", "Oslo", "Bern">>

\* records in the format of the prompt, with correct_option an option
\* letter or an option's text
LetterRecord == Record("Q1", Capitals, "A")
TextRecord == Record("Q2", Capitals, "Rome")
GoodRecords == {LetterRecord, TextRecord}
\* records that break the data model: 3 options, a correct_option naming none
BadRecords == {Record("Q2", <<"Paris", "Rome", "Oslo">>, "Rome"),
               Record("Q1", Capitals, "Lima")}

Quizzes == SeqsUpTo(GoodRecords \cup BadRecords, MaxQuestions)

\* prose around a payload: plain words, punctuation and quoted words; with
\* brackets that open no array of objects; with braces that make the whole
\* text one JSON object; with '[ {' before and '} ]' after
Leads == {<<>>, <<"w", " ">>, <<"Q1", ":", "\n">>, <<"[", "w", "]", " ">>,
          <<"{", "Q1", ":">>, <<"w", "[", " ", "{", " ">>}
Trails == {<<>>, <<" ", "w">>, <<"\n", "w", ",", "Q1">>, <<" ", "[", "w", "]">>,
           <<"}">>, <<" ", "}", " ", "]", "w">>}

NoShape == [wrapped |-> FALSE, quiz |-> <<>>, multiline |-> FALSE,
            lead |-> <<>>, trail |-> <<>>, fence |-> FALSE]

WrappedCases ==
    {[reply |-> TextReply(Wrap(EncodeQuiz(ds, ml), ld, tr, fc)),
      shape |-> [wrapped |-> TRUE, quiz |-> ds, multiline |-> ml,
                 lead |-> ld, trail |-> tr, fence |-> fc]] :
        <<ds, ml, ld, tr, fc>> \in Quizzes \X BOOLEAN \X Leads \X Trails \X BOOLEAN}

\* free-form text: every lexeme sequence up to MaxTextLen
FreeLexemes == {"[", "]", "{", "}", " ", "7", "w"}
FreeCases ==
    {[reply |-> TextReply(t), shape |-> NoShape] : t \in SeqsUpTo(FreeLexemes, MaxTextLen)}

FailureCase == [reply |-> ProviderFailure, shape |-> NoShape]

QuizCases == WrappedCases \cup FreeCases \cup {FailureCase}

\* the characters of a subjective reply
SubjChars == {"1", ")", ".", " ", "\n", "a"}
SubjCases ==
    {[reply |-> TextReply(t), shape |-> NoShape] : t \in SeqsUpTo(SubjChars, MaxTextLen)}
    \cup {FailureCase}

\* the replies of the runs with two invocations
ParallelQuizReplies ==
    {ProviderFailure, TextReply(<<"w">>), TextReply(EncodeQuiz(<<LetterRecord>>, FALSE)),
     TextReply(Wrap(EncodeQuiz(<<TextRecord>>, TRUE), <<"w", " ">>, <<>>, TRUE))}
ParallelSubjReplies ==
    {ProviderFailure, TextReply(<<"1", ".", "a", "\n", "1", ")", "a">>)}

DefaultQuizQuestions == 5
DefaultSubjQuestions == 3

(***************************************************************************)
(* The invocations.  An invocation configures the process-wide credential  *)
(* (genai.configure), then issues its one generate_content call, which     *)
(* reads the credential configured at that moment, and computes its        *)
(* outcome from the reply.                                                 *)
(***************************************************************************)
Inv == {1, 2}

Run(f, rep, n) ==
    IF f = "generate_quiz" THEN generate_quiz(rep)
    ELSE generate_subjective_questions(rep, n)

\* an invocation that calls the model again after a provider failure
OutcomeRetry(f, rep, n) ==
    IF rep.ok THEN [pc |-> "done", result |-> Run(f, rep, n)]
    ELSE [pc |-> "configured", result |-> NoResult]

\* a provider failure ends the invocation like every other outcome: the
\* except clause re-raises, nothing calls the model again
Outcome(f, rep, n) == [pc |-> "done", result |-> Run(f, rep, n)]

Configure(i) ==
    /\ pc[i] = "start"
    /\ cfgKey' = key[i]
    /\ pc' = [pc EXCEPT ![i] = "configured"]
    /\ UNCHANGED <<fn, key, num, reply, shape, result, calls, usedKey>>
    /\ UNCHANGED appVars

GenerateContent(i) ==
    /\ pc[i] = "configured"
    /\ calls' = [calls EXCEPT ![i] = @ + 1]
    /\ usedKey' = [usedKey EXCEPT ![i] = cfgKey]
    /\ LET out == Outcome(fn[i], reply[i], num[i]) IN
          /\ pc' = [pc EXCEPT ![i] = out.pc]
          /\ result' = [result EXCEPT ![i] = out.result]
    /\ UNCHANGED <<fn, key, num, reply, shape, cfgKey>>
    /\ UNCHANGED appVars

NextInv == \E i \in Inv : Configure(i) \/ GenerateContent(i)

(***************************************************************************)
(* The session of app.py before the first run of the script.               *)
(***************************************************************************)
EmptySession ==
    [has |-> {}, doc_text |-> "none", summary |-> "none", quiz |-> NoVal, subjective |-> NoVal]
NoScore == [shown |-> FALSE, value |-> 0, outof |-> 0]
Idle == [summarised |-> "no", generated |-> "no", had |-> {}]

InitApp ==
    /\ uploaded_file = "none"
    /\ challenge_type = "Objective (MCQs)"
    /\ choice = [i \in 1..MaxQuestions |-> 1]
    /\ session_state = EmptySession
    /\ score = NoScore
    /\ last = Idle
    /\ summarise_ok = 0

InitInvCommon ==
    /\ key = [i \in Inv |-> IF i = 1 THEN "key1" ELSE "key2"]
    /\ result = [i \in Inv |-> NoResult]
    /\ calls = [i \in Inv |-> 0]
    /\ usedKey = [i \in Inv |-> "none"]
    /\ cfgKey = "none"

\* one invocation of generate_quiz on any reply
InitQuiz ==
    /\ InitInvCommon /\ InitApp
    /\ fn = [i \in Inv |-> IF i = 1 THEN "generate_quiz" ELSE "none"]
    /\ pc = [i \in Inv |-> IF i = 1 THEN "start" ELSE "off"]
    /\ num = [i \in Inv |-> DefaultQuizQuestions]
    /\ \E c \in QuizCases :
          /\ reply = [i \in Inv |-> IF i = 1 THEN c.reply ELSE ProviderFailure]
          /\ shape = [i \in Inv |-> IF i = 1 THEN c.shape ELSE NoShape]

\* one invocation of generate_subjective_questions on any reply
InitSubj ==
    /\ InitInvCommon /\ InitApp
    /\ fn = [i \in Inv |-> IF i = 1 THEN "generate_subjective_questions" ELSE "none"]
    /\ pc = [i \in Inv |-> IF i = 1 THEN "start" ELSE "off"]
    /\ \E n \in 1..DefaultSubjQuestions :
          num = [i \in Inv |-> IF i = 1 THEN n ELSE DefaultSubjQuestions]
    /\ \E c \in SubjCases :
          /\ reply = [i \in Inv |-> IF i = 1 THEN c.reply ELSE ProviderFailure]
          /\ shape = [i \in Inv |-> NoShape]

\* two invocations in one process, with different credentials
InitParallel ==
    /\ InitInvCommon /\ InitApp
    /\ fn \in [Inv -> {"generate_quiz", "generate_subjective_questions"}]
    /\ pc = [i \in Inv |-> "start"]
    /\ num = [i \in Inv |-> IF fn[i] = "generate_quiz" THEN DefaultQuizQuestions
                                                        ELSE DefaultSubjQuestions]
    /\ reply \in [Inv -> ParallelQuizReplies \cup ParallelSubjReplies]
    /\ \A i \in Inv : reply[i] \in IF fn[i] = "generate_quiz" THEN ParallelQuizReplies
                                                              ELSE ParallelSubjReplies
    /\ shape = [i \in Inv |-> NoShape]

SpecQuiz == InitQuiz /\ [][NextInv]_vars
SpecSubj == InitSubj /\ [][NextInv]_vars
SpecParallel == InitParallel /\ [][NextInv]_vars

(***************************************************************************)
(* app.py: one run of the script from top to bottom, on the widgets as the *)
(* user left them.  extract_text and summarise_document are calls into     *)
(* other modules: a document is named by its text ("blank": no text was    *)
(* extracted), and summarise_document either returns the summary of the    *)
(* text it was given or raises.                                            *)
(***************************************************************************)
Docs == {"doc1", "doc2", "blank"}
ChallengeTypes == {"Objective (MCQs)", "Subjective (Descriptive)"}

SummaryOf(doc_text) == <<"summary of", doc_text>>

\* what the model may answer to the app's generate calls
AppQuizReplies ==
    {ProviderFailure, TextReply(<<"w">>), TextReply(<<"7">>),
     TextReply(EncodeQuiz(<<LetterRecord>>, FALSE)),
     TextReply(EncodeQuiz(<<TextRecord>>, FALSE)),
     TextReply(Wrap(EncodeQuiz(<<TextRecord, LetterRecord>>, TRUE), <<"w", " ">>, <<>>, TRUE))}
AppSubjReplies ==
    {ProviderFailure, TextReply(<<"1", ".", "a", "\n", "1", ")", "a">>), TextReply(<<"a">>)}

\* lines 97 and 98, 103: the function the handler calls
Generator(ct) ==
    IF ct = "Objective (MCQs)" THEN "generate_quiz" ELSE "generate_subjective_questions"

\* a handler that stores the new challenge and leaves the other one
GenerateChallengeNoPop(ss, ct, r) ==
    IF r.kind # "return" THEN ss
    ELSE IF ct = "Objective (MCQs)"
    THEN [ss EXCEPT !.quiz = r.val, !.has = @ \cup {"quiz"}]
    ELSE [ss EXCEPT !.subjective = r.val, !.has = @ \cup {"subjective"}]

\* a handler that removes the other challenge before its generate call
GenerateChallengeClearFirst(ss, ct, r) ==
    IF ct = "Objective (MCQs)"
    THEN IF r.kind = "return"
         THEN [ss EXCEPT !.quiz = r.val, !.subjective = NoVal,
                         !.has = (@ \cup {"quiz"}) \ {"subjective"}]
         ELSE [ss EXCEPT !.subjective = NoVal, !.has = @ \ {"subjective"}]
    ELSE IF r.kind = "return"
         THEN [ss EXCEPT !.subjective = r.val, !.quiz = NoVal,
                         !.has = (@ \cup {"subjective"}) \ {"quiz"}]
         ELSE [ss EXCEPT !.quiz = NoVal, !.has = @ \ {"quiz"}]

\* lines 96-108: the Generate Challenge handler, from the outcome r of its
\* generate call on.  Session state is written only after the call has
\* returned; an exception of the call, and one of len() on what it
\* returned, ends in st.error.
GenerateChallenge(ss, ct, r) ==
    IF r.kind # "return" THEN ss
    ELSE IF ct = "Objective (MCQs)"
    THEN [ss EXCEPT !.quiz = r.val, !.subjective = NoVal,
                    !.has = (@ \cup {"quiz"}) \ {"subjective"}]
    ELSE [ss EXCEPT !.subjective = r.val, !.quiz = NoVal,
                    !.has = (@ \cup {"subjective"}) \ {"quiz"}]

\* a script that summarises on every run
NeedsSummaryAlways(ss) == TRUE

\* line 60: the summary is computed only when the session holds none
NeedsSummary(ss) == "summary" \notin ss.has

\* lines 116-120: the loop that shows the quiz runs to its end when the
\* stored value is a list of records with the three keys (or has nothing
\* to iterate over); on anything else the script ends with an exception
Displayable(quiz) ==
    \/ /\ quiz.t = "list"
       /\ \A i \in 1..Len(quiz.v) :
             /\ quiz.v[i].t = "obj"
             /\ KeyLits \subseteq DOMAIN quiz.v[i].v
             /\ quiz.v[i].v["options"].t = "list"
             /\ Len(quiz.v[i].v["options"].v) >= 1
    \/ /\ quiz.t = "obj"
       /\ DOMAIN quiz.v = {}

NumShown(quiz) == IF quiz.t = "list" THEN Len(quiz.v) ELSE 0

\* line 118: the option the radio of question i returns
UserChoice(q, c) ==
    LET opts == q.v["options"].v IN
    IF c <= Len(opts) THEN opts[c] ELSE opts[1]

Picked(quiz, ch, i) == UserChoice(quiz.v[i], IF i \in DOMAIN ch THEN ch[i] ELSE 1)

\* lines 122-126: the submit step
Scorable(quiz, ch) ==
    \A i \in 1..NumShown(quiz) :
        /\ Picked(quiz, ch, i).t = "str"
        /\ quiz.v[i].v["correct_option"].t = "str"

CountCorrect(quiz, ch) ==
    Cardinality({i \in 1..NumShown(quiz) :
                    evaluate_answer(Picked(quiz, ch, i).v,
                                    quiz.v[i].v["correct_option"].v)})

\* the widgets below the summary were shown by the last run
Rendered ==
    /\ uploaded_file \in Docs \ {"blank"}
    /\ "summary" \in session_state.has
QuizShown ==
    /\ Rendered
    /\ "quiz" \in session_state.has
    /\ Displayable(session_state.quiz)

Script(up, ct, ch, click, summ_ok, r) ==
    /\ uploaded_file' = up
    /\ challenge_type' = ct
    /\ choice' = ch
    /\ IF up \notin Docs \ {"blank"}
       THEN \* no file (line 135), or no text extracted (lines 53-55)
            /\ UNCHANGED <<session_state, summarise_ok>>
            /\ score' = NoScore
            /\ last' = Idle
       ELSE LET s1 == [session_state EXCEPT !.doc_text = up, !.has = @ \cup {"doc_text"}]
                need == NeedsSummary(s1) IN
            IF need /\ ~summ_ok
            THEN \* lines 64-66: st.error and st.stop
                 /\ session_state' = s1
                 /\ UNCHANGED summarise_ok
                 /\ score' = NoScore
                 /\ last' = [summarised |-> "failed", generated |-> "no", had |-> {}]
            ELSE LET s2 == IF need
                           THEN [s1 EXCEPT !.summary = SummaryOf(up), !.has = @ \cup {"summary"}]
                           ELSE s1
                     s3 == IF click = "generate" THEN GenerateChallenge(s2, ct, r) ELSE s2
                 IN  /\ session_state' = s3
                     /\ summarise_ok' = summarise_ok + (IF need THEN 1 ELSE 0)
                     /\ last' = [summarised |-> IF need THEN "ok" ELSE "no",
                                 generated |-> IF click = "generate" THEN r.kind ELSE "no",
                                 had |-> IF click = "generate"
                                         THEN s2.has \cap {"quiz", "subjective"} ELSE {}]
                     /\ score' = IF /\ click = "submit"
                                    /\ "quiz" \in s3.has
                                    /\ Displayable(s3.quiz)
                                    /\ Scorable(s3.quiz, ch)
                                 THEN [shown |-> TRUE,
                                       value |-> CountCorrect(s3.quiz, ch),
                                       outof |-> NumShown(s3.quiz)]
                                 ELSE NoScore
    /\ UNCHANGED invVars

RepliesFor(ct) == IF ct = "Objective (MCQs)" THEN AppQuizReplies ELSE AppSubjReplies

\* the user puts a file into the uploader, or takes it out
Upload(d) ==
    /\ d \in Docs \cup {"none"}
    /\ d # uploaded_file
    /\ \E summ_ok \in BOOLEAN :
          Script(d, challenge_type, choice, "none", summ_ok, NoResult)

\* the user asks for a rerun
Rerun ==
    \E summ_ok \in BOOLEAN :
        Script(uploaded_file, challenge_type, choice, "none", summ_ok, NoResult)

PickType(t) ==
    /\ Rendered
    /\ t \in ChallengeTypes \ {challenge_type}
    /\ Script(uploaded_file, t, choice, "none", TRUE, NoResult)

ClickGenerate ==
    /\ Rendered
    /\ \E rep \in RepliesFor(challenge_type) :
          Script(uploaded_file, challenge_type, choice, "generate", TRUE,
                 Run(Generator(challenge_type), rep, DefaultSubjQuestions))

SelectOption(i, j) ==
    /\ QuizShown
    /\ i \in 1..NumShown(session_state.quiz)
    /\ i \in DOMAIN choice
    /\ j \in 1..Len(session_state.quiz.v[i].v["options"].v)
    /\ j # choice[i]
    /\ Script(uploaded_file, challenge_type, [choice EXCEPT ![i] = j], "none", TRUE, NoResult)

ClickSubmit ==
    /\ QuizShown
    /\ Script(uploaded_file, challenge_type, choice, "submit", TRUE, NoResult)

NextApp ==
    \/ \E d \in Docs \cup {"none"} : Upload(d)
    \/ Rerun
    \/ \E t \in ChallengeTypes : PickType(t)
    \/ ClickGenerate
    \/ \E i \in 1..MaxQuestions, j \in 1..4 : SelectOption(i, j)
    \/ ClickSubmit

\* the invocation variables are not used by the session
InitSession ==
    /\ InitInvCommon /\ InitApp
    /\ fn = [i \in Inv |-> "none"]
    /\ pc = [i \in Inv |-> "off"]
    /\ num = [i \in Inv |-> DefaultQuizQuestions]
    /\ reply = [i \in Inv |-> ProviderFailure]
    /\ shape = [i \in Inv |-> NoShape]

SpecApp == InitSession /\ [][NextApp]_vars

(***************************************************************************)
(* Properties.                                                             *)
(***************************************************************************)
Done(i, f) == pc[i] = "done" /\ fn[i] = f

(***************************************************************************)
(* The data model's invariant on an objective quiz: a list of records,     *)
(* each with 4 options and a correct_option that identifies exactly one of *)
(* them, by its letter or by its text.                                     *)
(***************************************************************************)
Designated(q) ==
    {i \in 1..Len(q.v["options"].v) :
        /\ q.v["options"].v[i].t = "str"
        /\ \/ q.v["options"].v[i].v = q.v["correct_option"].v
           \/ (i <= Len(Letters) /\ Letters[i] = q.v["correct_option"].v)}

IsQuestion(q) ==
    /\ q.t = "obj"
    /\ KeyLits \subseteq DOMAIN q.v
    /\ q.v["question"].t = "str"
    /\ q.v["options"].t = "list"
    /\ Len(q.v["options"].v) = 4
    /\ \A i \in 1..4 : q.v["options"].v[i].t = "str"
    /\ q.v["correct_option"].t = "str"
    /\ Cardinality(Designated(q)) = 1

IsQuiz(v) == v.t = "list" /\ \A i \in 1..Len(v.v) : IsQuestion(v.v[i])

\* the text of invocation i's payload, and what the wrapping added
Payload(i) == EncodeQuiz(shape[i].quiz, shape[i].multiline)
PlainProse(t) == \A k \in 1..Len(t) : t[k] \notin {"[", "]", "{", "}"}

\* both parse attempts of generate_quiz fail on the text
Malformed(text) ==
    /\ ~json_loads(Strip(text)).ok
    /\ \/ ~RegexSearch(Strip(text)).found
       \/ ~json_loads(RegexSearch(Strip(text)).group).ok

\* the message of the error holds the text
Carries(err, text) ==
    \E k \in 0..(Len(err.msg) - Len(text)) : SubSeq(err.msg, k + 1, k + Len(text)) = text

\* C1: every value generate_quiz returns is a list of records with 4
\* options each and a correct_option that identifies exactly one of them.
C1_ReturnedValueIsQuiz ==
    \A i \in Inv :
        (Done(i, "generate_quiz") /\ result[i].kind = "return") => IsQuiz(result[i].val)

\* C2: when the quiz in the session has the format the prompt asks for and
\* the user has selected, for every question, the option that its
\* correct_option designates (by letter or by text), the submit step shows
\* a score equal to the number of questions.
C2_PerfectScore ==
    ( /\ score.shown
      /\ IsQuiz(session_state.quiz)
      /\ \A i \in 1..Len(session_state.quiz.v) :
            i \in DOMAIN choice /\ choice[i] \in Designated(session_state.quiz.v[i]) )
    => (score.value = Len(session_state.quiz.v) /\ score.outof = Len(session_state.quiz.v))

\* C3: the list generate_subjective_questions returns holds no empty string.
C3_NoEmptyQuestion ==
    \A i \in Inv :
        (Done(i, "generate_subjective_questions") /\ result[i].kind = "return")
        => \A k \in 1..Len(result[i].val.v) : result[i].val.v[k].v # <<>>

\* C4 as stated: for every valid payload and every wrapping of it in prose
\* and a code fence, brackets and braces in the prose included, generate_quiz
\* returns on the wrapped text what it returns on the payload alone.
C4_AnyWrappingSameList ==
    \A i \in Inv :
        (Done(i, "generate_quiz") /\ shape[i].wrapped /\ IsQuiz(QuizVal(shape[i].quiz)))
        => result[i] = generate_quiz(TextReply(Payload(i)))

\* C4 as amended: for every valid payload with at least one record and every
\* wrapping of it in a code fence and prose that holds none of '[', ']',
\* '{', '}', generate_quiz returns on the wrapped text what it returns on
\* the payload alone, which is the list of the payload's records.
C4_PlainWrappingSameList ==
    \A i \in Inv :
        ( /\ Done(i, "generate_quiz")
          /\ shape[i].wrapped
          /\ IsQuiz(QuizVal(shape[i].quiz))
          /\ shape[i].quiz # <<>>
          /\ PlainProse(shape[i].lead) /\ PlainProse(shape[i].trail) )
        => /\ result[i] = generate_quiz(TextReply(Payload(i)))
           /\ result[i] = Return(QuizVal(shape[i].quiz))

\* a payload of two records on several lines, in a fence between prose, was
\* salvaged
C4_Witness ==
    \E i \in Inv :
        /\ Done(i, "generate_quiz")
        /\ shape[i].wrapped /\ shape[i].fence /\ shape[i].multiline
        /\ Len(shape[i].quiz) = 2
        /\ IsQuiz(QuizVal(shape[i].quiz))
        /\ shape[i].lead # <<>> /\ shape[i].trail # <<>>
        /\ PlainProse(shape[i].lead) /\ PlainProse(shape[i].trail)
        /\ ~json_loads(Strip(reply[i].text)).ok
        /\ result[i].kind = "return"

\* C5: when both parse attempts fail, generate_quiz raises an error that
\* carries the raw model text and differs from the error of a failed
\* model call.
C5_MalformedErrorCarriesText ==
    \A i \in Inv :
        (Done(i, "generate_quiz") /\ reply[i].ok /\ Malformed(reply[i].text))
        => /\ result[i].kind = "raise"
           /\ Carries(result[i].err, reply[i].text)
           /\ result[i].err # generate_quiz(ProviderFailure).err

\* C6: an invocation has issued no model call before its generate_content
\* step and exactly one when it has returned or raised, after a provider
\* failure and after a salvage parse too.
C6_ExactlyOneModelCall ==
    \A i \in Inv :
        /\ pc[i] \in {"start", "configured"} => calls[i] = 0
        /\ pc[i] = "done" => calls[i] = 1

\* one invocation ended on a provider failure, the other returned a quiz
\* from the salvage parse
C6_Witness ==
    \E i, j \in Inv :
        /\ pc[i] = "done" /\ ~reply[i].ok /\ result[i].kind = "raise"
        /\ Done(j, "generate_quiz") /\ reply[j].ok
        /\ ~json_loads(Strip(reply[j].text)).ok
        /\ result[j].kind = "return"

\* C7: the model call of an invocation is made with the credential passed
\* to that invocation.
C7_OwnCredential ==
    \A i \in Inv : pc[i] = "done" => usedKey[i] = key[i]

\* C8: the session never holds both "quiz" and "subjective"; a successful
\* objective generation leaves "quiz" and no "subjective", a successful
\* subjective generation "subjective" and no "quiz".
C8_AtMostOneChallenge ==
    /\ ~({"quiz", "subjective"} \subseteq session_state.has)
    /\ (last.generated = "return" /\ challenge_type = "Objective (MCQs)")
       => ("quiz" \in session_state.has /\ "subjective" \notin session_state.has)
    /\ (last.generated = "return" /\ challenge_type = "Subjective (Descriptive)")
       => ("subjective" \in session_state.has /\ "quiz" \notin session_state.has)

\* a subjective generation has replaced an objective quiz
C8_Witness ==
    /\ last.generated = "return"
    /\ last.had = {"quiz"}
    /\ session_state.has \cap {"quiz", "subjective"} = {"subjective"}

ChallengePart(ss) ==
    [has |-> ss.has \cap {"quiz", "subjective"}, quiz |-> ss.quiz, subjective |-> ss.subjective]

\* C9: a run whose generate call raises leaves the keys "quiz" and
\* "subjective" of the session as they were.
C9_FailedGenerationKeepsChallenge ==
    [][last'.generated = "raise" => ChallengePart(session_state') = ChallengePart(session_state)]_vars

\* a subjective generation failed while the session held an objective quiz,
\* which it still holds
C9_Witness ==
    /\ last.generated = "raise"
    /\ challenge_type = "Subjective (Descriptive)"
    /\ last.had = {"quiz"}
    /\ "quiz" \in session_state.has

\* C10: once the session holds a summary, no run calls summarise_document
\* again or changes the summary; summarise_document succeeds at most once;
\* a failed summarisation stores no summary, and a run on a document that
\* finds no summary attempts one.
C10_SummaryOnce ==
    [][ /\ "summary" \in session_state.has
           => /\ "summary" \in session_state'.has
              /\ session_state'.summary = session_state.summary
              /\ summarise_ok' = summarise_ok
              /\ last'.summarised = "no"
        /\ summarise_ok' <= 1
        /\ last'.summarised = "failed" => "summary" \notin session_state'.has
        /\ ("summary" \notin session_state.has /\ uploaded_file' \in Docs \ {"blank"})
           => last'.summarised # "no" ]_vars

\* the summary of the first document is still the one stored after the
\* second document was uploaded
C10_Witness ==
    /\ summarise_ok = 1
    /\ uploaded_file = "doc2"
    /\ session_state.doc_text = "doc2"
    /\ session_state.summary = SummaryOf("doc1")

====
